---- MODULE Spec2Model ----
(***************************************************************************)
(* The ingestion pipeline of app/lib/populate.py: Populate sessions that   *)
(* run concurrently (one per thread), the process-wide POPULATE_KEY, the   *)
(* in-memory Track/Album/Artist stores, the persistent track table and    *)
(* the files on disk.                                                      *)
(***************************************************************************)
EXTENDS Integers, Sequences, FiniteSets, TLC

\* ------------------------------------------------------------- bounds
\* Number of Populate sessions started in one behaviour.
MaxRuns == 3
\* Number of changes the environment makes to the files on disk.
MaxFsEvents == 1

\* ------------------------------------------------------------- inputs
Runs == 1..MaxRuns

\* The keys a caller may pass to Populate(key).
Keys == {"k1", "k2"}

\* The audio files of the collection that come and go, all under /music.
Files == {"/music/a.mp3", "/music/b.mp3"}

\* An audio file under /music that was ingested before the application started
\* and is not touched since.
Settled == {"/music/c.mp3"}

Library == Files \cup Settled

\* What sdb.get_root_dirs() may return.
RootDirChoices == {<<>>, <<"$home">>, <<"/music">>}

\* settings.Paths.USER_HOME_DIR: a home directory that holds no audio file.
USER_HOME_DIR == "/home/user"

\* The directory a file lies under.
DirOf(f) == "/music"

\* The metadata the tag extractor reads from a file: two tracks of album A,
\* the first by artist X, the second by X and Y, both with album artist X, and
\* one track of album B by artist Y.
TagsOf(f) ==
    CASE f = "/music/a.mp3" ->
            [trackhash |-> "t1", albumhash |-> "A",
             artist |-> <<"X">>, albumartist |-> <<"X">>]
      [] f = "/music/b.mp3" ->
            [trackhash |-> "t2", albumhash |-> "A",
             artist |-> <<"X", "Y">>, albumartist |-> <<"X">>]
      [] OTHER ->
            [trackhash |-> "t3", albumhash |-> "B",
             artist |-> <<"Y">>, albumartist |-> <<"Y">>]

\* The value of a local variable that holds nothing yet.
None == [none |-> TRUE]

VARIABLES
    POPULATE_KEY,   \* the module global of populate.py
    disk,           \* file -> mtime, 0 when the file is not on disk
    fsEvents,       \* changes made to the disk so far
    TrackStore,     \* TrackStore.tracks: a list of Track
    db,             \* the persistent track table
    AlbumStore,     \* AlbumStore.albums: a list of albumhash
    ArtistStore,    \* ArtistStore.artists: a list of artisthash
    nruns,          \* sessions started so far
    pc,             \* run -> the place of its thread in Populate.__init__
    frame,          \* run -> the local variables of its thread
    overlapped,     \* history: some session started while another was running
    lastDirs,       \* history: the root directories the latest session read
    earlyExit,      \* history: the key of the latest session, once it has returned
                    \* for want of a root directory; "" otherwise
    lastFsRun       \* history: the value of nruns at the last change to the disk

vars == <<POPULATE_KEY, disk, fsEvents, TrackStore, db, AlbumStore, ArtistStore,
          nruns, pc, frame, overlapped, lastDirs, earlyExit, lastFsRun>>

stores == <<TrackStore, db, AlbumStore, ArtistStore>>
env == <<disk, fsEvents, lastFsRun>>
hist == <<overlapped, lastDirs, earlyExit>>

\* ------------------------------------------------------------ helpers
Range(s) == {s[i] : i \in 1..Len(s)}

Paths(ts) == {t.filepath : t \in ts}

RECURSIVE SetToSeq(_)
SetToSeq(S) ==
    IF S = {} THEN <<>>
    ELSE LET x == CHOOSE y \in S : TRUE IN <<x>> \o SetToSeq(S \ {x})

\* os.path.exists / os.path.getmtime
Exists(f) == disk[f] # 0

\* get_tags(file): the Track fields, with last_mod the file's mtime now; None
\* for a file that cannot be read.
get_tags(f) ==
    IF ~Exists(f) THEN None
    ELSE [filepath |-> f, last_mod |-> disk[f],
          trackhash |-> TagsOf(f).trackhash, albumhash |-> TagsOf(f).albumhash,
          artist |-> TagsOf(f).artist, albumartist |-> TagsOf(f).albumartist]

\* run_fast_scandir(_dir, full=True)[1]
run_fast_scandir(dir) == {f \in Library : Exists(f) /\ DirOf(f) = dir}

\* line 54: no root directory is configured
NoRoots_Never(dirs) == FALSE

NoRoots(dirs) == Len(dirs) = 0

\* lines 63-72: the $home sentinel (an IndexError is passed over) and the scan
\* of every root directory
ScanDirs(dirs) ==
    LET resolved == IF Len(dirs) > 0 /\ dirs[1] = "$home" THEN <<USER_HOME_DIR>>
                    ELSE dirs
    IN UNION {run_fast_scandir(resolved[i]) : i \in 1..Len(resolved)}

\* line 48: the first statement after the key is set
FirstStep_NoValidation == "get_all_tracks"

FirstStep == "validate_tracks"

\* Populate.filter_untagged
filter_untagged(ts, fs) == fs \ Paths(ts)

\* Populate.remove_modified: the filepaths whose mtime differs
Modified(ts) == {t.filepath : t \in {u \in ts : u.last_mod # disk[u.filepath]}}

\* TrackStore.remove_tracks_by_filepaths
StoreRemoveByFilepaths(store, fps) == SelectSeq(store, LAMBDA t : t.filepath \notin fps)

\* SQLiteTrackMethods.remove_tracks_by_filepaths
DbRemoveByFilepaths(table, fps) == {r \in table : r.filepath \notin fps}

\* TrackStore.add_track
add_track(store, t) == Append(store, t)

\* AlbumStore.album_exists / ArtistStore.artist_exists
album_exists(h) == h \in Range(AlbumStore)
artist_exists(store, h) == h \in Range(store)

\* AlbumStore.add_album(AlbumStore.create_album(track))
add_album(store, t) == Append(store, t.albumhash)

\* ArtistStore.add_artist(Artist(artist.name))
add_artist(store, h) == Append(store, h)

\* lines 142-148: one loop over a list of artists, run with no other thread
\* in between
RECURSIVE AddArtists(_, _)
AddArtists(store, as) ==
    IF as = <<>> THEN store
    ELSE AddArtists(IF artist_exists(store, Head(as)) THEN store
                    ELSE Append(store, Head(as)),
                    Tail(as))

\* line 170: ThreadPoolExecutor(max_workers=4)
max_workers == 4

\* track.image: the image path of the track's album, one path per albumhash
ImageOf(t) == t.albumhash

\* The least element of a non-empty set of numbers.
Min(S) == CHOOSE x \in S : \A y \in S : x <= y

\* The places in the list of tracks of the Tracks of album h.
Matching(h, tracks) == {i \in DOMAIN tracks : tracks[i].albumhash = h}

\* lines 161-165 without the break: every matching track is extracted
get_image_NoBreak(h, tracks) == Matching(h, tracks)

\* get_image(album): the places in TrackStore.tracks of the tracks it calls
\* extract_thumb on, the first match only
get_image(h, tracks) ==
    IF Matching(h, tracks) = {} THEN {} ELSE {Min(Matching(h, tracks))}

\* The ways extract_thumb ends: the image is written, or there is no artwork
\* to write (missing artwork, corrupt file).
ThumbOutcomes == {"ok", "failed"}

\* SQLiteTrackMethods.insert_many_tracks
insert_many_tracks(table, rows) == table \cup rows

\* The ways CheckArtistImages() ends: normally, or with one of the two
\* exceptions of requests that line 90 names.
EnrichOutcomes == {"ok", "ConnectionError", "ReadTimeout"}

\* lines 154-156: the batch goes to the persistent table when it is not empty
BulkInsert_Inverted(table, batch) ==
    IF Cardinality(batch) = 0 THEN insert_many_tracks(table, batch) ELSE table

BulkInsert(table, batch) ==
    IF Cardinality(batch) > 0 THEN insert_many_tracks(table, batch) ELSE table

\* line 127: the per-file cancellation test
KeyChanged_Off(s) == FALSE

\* line 127 with a test that remembers every session started since the last one
KeyChanged_Remembered(s) == POPULATE_KEY # frame[s].key \/ frame[s].superseded

KeyChanged(s) == POPULATE_KEY # frame[s].key

\* line 90: the exceptions the enrichment handler catches
Caught_OnlyConnectionError(exc) == exc = "ConnectionError"

Caught(exc) == exc \in {"ConnectionError", "ReadTimeout"}

\* ---------------------------------------------------------------- Init
\* The stores as the application loads them from the persistent table.
TrackOf(f) ==
    [filepath |-> f, last_mod |-> 1,
     trackhash |-> TagsOf(f).trackhash, albumhash |-> TagsOf(f).albumhash,
     artist |-> TagsOf(f).artist, albumartist |-> TagsOf(f).albumartist]

RECURSIVE LoadAlbums(_, _)
LoadAlbums(store, ts) ==
    IF ts = <<>> THEN store
    ELSE LoadAlbums(IF Head(ts).albumhash \in Range(store) THEN store
                    ELSE Append(store, Head(ts).albumhash),
                    Tail(ts))

RECURSIVE LoadArtists(_, _)
LoadArtists(store, ts) ==
    IF ts = <<>> THEN store
    ELSE LoadArtists(AddArtists(AddArtists(store, Head(ts).artist), Head(ts).albumartist),
                     Tail(ts))

\* The locals of a thread that is not inside Populate.__init__.
\*   key, tracks, dirs_to_scan, files: the argument and locals of __init__
\*   untagged:            the files tag_untagged has still to iterate
\*   file, track:         the loop variable and the Track of this iteration
\*   artists:             the artists the two loops of lines 142-148 have
\*                        still to go through, the current one first
\*   tagged_tracks, tagged_count: the batch and counter of tag_untagged
\*   total:               len(untagged), as lines 119 and 158 log it
\*   albums:              the albums pool.map was given, in order
\*   next:                how many of them the workers of the pool have taken
\*   active:              the calls of extract_thumb in progress, each with the
\*                        place of its album in albums and the path it writes
\*   tried:               tried_to_download_new_images
\*   exc:                 how CheckArtistImages() ended
\*   stages:              history, the stages the run has executed, in order
\*   rerun:               history, the session before this one had returned
\*                        normally when this one started, and this one reads
\*                        the same root directories
\*   tracks0:             history, TrackStore.tracks when the session started
\*   stale:               history, the scanned files remove_modified found
\*                        modified
\*   thumbs:              history, the calls of extract_thumb of the thumbnail
\*                        stage, each with the place of its album in albums and
\*                        the file of its track
\*   failed:              history, the places in albums of the albums whose
\*                        extraction failed
\*   superseded:          history, a session with another key has started
\*                        since the loop of tag_untagged last tested the key
\*   missed:              history, the key test that began this iteration
\*                        passed although the run had been superseded
NoFrame ==
    [key |-> "", tracks |-> {}, dirs_to_scan |-> <<>>, files |-> {},
     untagged |-> {}, file |-> "", track |-> None, artists |-> <<>>,
     tagged_tracks |-> {},
     tagged_count |-> 0, total |-> 0, albums |-> <<>>, next |-> 0, active |-> {},
     tried |-> FALSE, exc |-> "", stages |-> <<>>,
     rerun |-> FALSE, tracks0 |-> <<>>, stale |-> {}, thumbs |-> <<>>,
     failed |-> {}, superseded |-> FALSE, missed |-> FALSE]

\* What the application finds when it starts: for each file, whether the
\* persistent table holds a Track of it (ingested with mtime 1) and the file's
\* mtime now.
\*   new:     on disk, never ingested
\*   tagged:  ingested, the file unchanged since
\*   stale:   ingested, the file written since
\*   deleted: ingested, the file removed since
FileStatus == {"new", "tagged", "stale", "deleted"}

Init ==
    /\ POPULATE_KEY = ""
    /\ fsEvents = 0
    /\ lastFsRun = 0
    /\ \E status \in [Files -> FileStatus] :
          /\ disk = [f \in Library |->
                       CASE f \in Settled -> 1
                         [] status[f] = "deleted" -> 0
                         [] status[f] = "stale" -> 2
                         [] OTHER -> 1]
          /\ db = {TrackOf(f) : f \in Settled \cup {g \in Files : status[g] # "new"}}
    /\ TrackStore = SetToSeq(db)
    /\ AlbumStore = LoadAlbums(<<>>, TrackStore)
    /\ ArtistStore = LoadArtists(<<>>, TrackStore)
    /\ nruns = 0
    /\ pc = [s \in Runs |-> "idle"]
    /\ frame = [s \in Runs |-> NoFrame]
    /\ overlapped = FALSE
    /\ lastDirs = <<>>
    /\ earlyExit = ""

\* ------------------------------------------------------------- actions
\* Where a run's thread has left Populate.__init__: a normal return, the
\* PopulateCancelledError, or another exception.
Terminal == {"done", "cancelled", "raised"}

\* Inside one iteration of the loop of tag_untagged, after the key test.
InIteration ==
    {"get_tags", "album_exists", "add_album", "artists", "artist_exists", "add_artist"}

\* The places of a run inside the loop of tag_untagged.
InLoop == {"tag_untagged"} \cup InIteration

\* The thread of run s moves to l with its locals f; a thread that leaves
\* Populate.__init__ has no locals any more.
Goto(s, l, f) ==
    /\ pc' = [pc EXCEPT ![s] = l]
    /\ frame' = [frame EXCEPT ![s] = IF l \in Terminal THEN NoFrame ELSE f]

Staged(f, name) == [f EXCEPT !.stages = Append(@, name)]

\* lines 44-46 with the key left as it is
Enter_KeyNotSet(s, k) ==
    /\ pc[s] = "idle"
    /\ s = nruns + 1
    /\ s = 1 => k = "k1"
    /\ nruns' = s
    /\ overlapped' = (overlapped \/ \E r \in Runs : pc[r] \notin Terminal \cup {"idle"})
    /\ earlyExit' = ""
    /\ Goto(s, FirstStep,
            [frame[s] EXCEPT !.key = k,
                             !.rerun = (s > 1 /\ pc[s - 1] = "done"),
                             !.tracks0 = TrackStore])
    /\ UNCHANGED <<POPULATE_KEY, env, stores, lastDirs>>

\* lines 44-46: a caller starts Populate(k) on a thread of its own, and the
\* key is set first.
Enter(s, k) ==
    /\ pc[s] = "idle"
    /\ s = nruns + 1
    /\ s = 1 => k = "k1"
    /\ nruns' = s
    /\ POPULATE_KEY' = k
    /\ overlapped' = (overlapped \/ \E r \in Runs : pc[r] \notin Terminal \cup {"idle"})
    /\ earlyExit' = ""
    /\ pc' = [pc EXCEPT ![s] = FirstStep]
    /\ frame' = [r \in Runs |->
                   IF r = s
                   THEN [frame[s] EXCEPT !.key = k,
                                         !.rerun = (s > 1 /\ pc[s - 1] = "done"),
                                         !.tracks0 = TrackStore]
                   ELSE IF pc[r] \in InLoop /\ frame[r].key # k
                   THEN [frame[r] EXCEPT !.superseded = TRUE]
                   ELSE frame[r]]
    /\ UNCHANGED <<env, stores, lastDirs>>

\* line 48: validate_tracks() drops the Tracks whose file is gone
ValidateTracks(s) ==
    /\ pc[s] = "validate_tracks"
    /\ LET gone == {t.filepath : t \in {u \in Range(TrackStore) : ~Exists(u.filepath)}}
       IN /\ TrackStore' = StoreRemoveByFilepaths(TrackStore, gone)
          /\ db' = DbRemoveByFilepaths(db, gone)
    /\ Goto(s, "get_all_tracks", frame[s])
    /\ UNCHANGED <<POPULATE_KEY, env, AlbumStore, ArtistStore, nruns, hist>>

\* lines 49-50: tracks = list(get_all_tracks())
GetAllTracks(s) ==
    /\ pc[s] = "get_all_tracks"
    /\ Goto(s, "get_root_dirs", [frame[s] EXCEPT !.tracks = db])
    /\ UNCHANGED <<POPULATE_KEY, env, stores, nruns, hist>>

\* line 52: dirs_to_scan = sdb.get_root_dirs()
GetRootDirs(s) ==
    /\ pc[s] = "get_root_dirs"
    /\ \E dirs \in RootDirChoices :
          /\ Goto(s, "check_dirs",
                  [frame[s] EXCEPT !.dirs_to_scan = dirs,
                                   !.rerun = (@ /\ dirs = lastDirs)])
          /\ lastDirs' = dirs
    /\ UNCHANGED <<POPULATE_KEY, env, stores, nruns, overlapped, earlyExit>>

\* lines 54-72: with no root directory the run ends; otherwise every root is
\* scanned
CheckDirs(s) ==
    /\ pc[s] = "check_dirs"
    /\ IF NoRoots(frame[s].dirs_to_scan)
       THEN /\ Goto(s, "done", frame[s])
            /\ earlyExit' = IF s = nruns THEN frame[s].key ELSE earlyExit
       ELSE /\ Goto(s, "remove_modified",
                    Staged([frame[s] EXCEPT !.files = ScanDirs(frame[s].dirs_to_scan),
                                            !.dirs_to_scan = <<>>, !.tracks0 = <<>>],
                           "scan"))
            /\ UNCHANGED earlyExit
    /\ UNCHANGED <<POPULATE_KEY, env, stores, nruns, overlapped, lastDirs>>

\* lines 74-78 and 103-115: remove_modified, filter_untagged and the branch on
\* len(untagged); os.path.getmtime raises for a file that is gone. The locals
\* tracks and files are not read after line 75.
RemoveModified(s) ==
    /\ pc[s] = "remove_modified"
    /\ IF \E t \in frame[s].tracks : ~Exists(t.filepath)
       THEN /\ Goto(s, "raised", frame[s])
            /\ UNCHANGED stores
       ELSE LET modified == Modified(frame[s].tracks)
                new == filter_untagged(frame[s].tracks, frame[s].files)
            IN /\ TrackStore' = StoreRemoveByFilepaths(TrackStore, modified)
               /\ db' = DbRemoveByFilepaths(db, modified)
               /\ Goto(s, IF Cardinality(new) # 0 THEN "tag_untagged"
                          ELSE "ProcessTrackThumbnails",
                       Staged([frame[s] EXCEPT !.untagged = new, !.tracks = {},
                                               !.total = Cardinality(new),
                                               !.files = {},
                                               !.stale = modified \cap frame[s].files],
                              "remove_modified"))
               /\ UNCHANGED <<AlbumStore, ArtistStore>>
    /\ UNCHANGED <<POPULATE_KEY, env, nruns, hist>>

\* lines 126-128: the head of the loop, with its cancellation test
NextFile(s) ==
    /\ pc[s] = "tag_untagged"
    /\ IF frame[s].untagged = {}
       THEN Goto(s, "insert_many_tracks", [frame[s] EXCEPT !.superseded = FALSE])
       ELSE IF KeyChanged(s)
       THEN Goto(s, "cancelled", frame[s])
       ELSE \E file \in frame[s].untagged :
              Goto(s, "get_tags",
                   [frame[s] EXCEPT !.untagged = @ \ {file}, !.file = file,
                                    !.missed = frame[s].superseded,
                                    !.superseded = FALSE])
    /\ UNCHANGED <<POPULATE_KEY, env, stores, nruns, hist>>

\* lines 130-152 with a file that cannot be read ending the stage
GetTags_AbortOnNone(s) ==
    /\ pc[s] = "get_tags"
    /\ LET tags == get_tags(frame[s].file)
       IN IF tags # None
          THEN /\ TrackStore' = add_track(TrackStore, tags)
               /\ Goto(s, "album_exists",
                       [frame[s] EXCEPT !.tagged_tracks = @ \cup {tags},
                                        !.track = tags])
          ELSE /\ Goto(s, "raised", frame[s])
               /\ UNCHANGED TrackStore
    /\ UNCHANGED <<POPULATE_KEY, env, db, AlbumStore, ArtistStore, nruns, hist>>

\* lines 130-137 and 151-152: get_tags(file) and TrackStore.add_track, or the
\* warning for a file that cannot be read
GetTags(s) ==
    /\ pc[s] = "get_tags"
    /\ LET tags == get_tags(frame[s].file)
       IN IF tags # None
          THEN /\ TrackStore' = add_track(TrackStore, tags)
               /\ Goto(s, "album_exists",
                       [frame[s] EXCEPT !.tagged_tracks = @ \cup {tags},
                                        !.track = tags])
          ELSE /\ Goto(s, "tag_untagged",
                       [frame[s] EXCEPT !.file = "", !.missed = FALSE])
               /\ UNCHANGED TrackStore
    /\ UNCHANGED <<POPULATE_KEY, env, db, AlbumStore, ArtistStore, nruns, hist>>

\* line 139: if not AlbumStore.album_exists(track.albumhash)
AlbumExists(s) ==
    /\ pc[s] = "album_exists"
    /\ Goto(s, IF album_exists(frame[s].track.albumhash) THEN "artists" ELSE "add_album",
            frame[s])
    /\ UNCHANGED <<POPULATE_KEY, env, stores, nruns, hist>>

\* line 140: AlbumStore.add_album(AlbumStore.create_album(track))
AddAlbum(s) ==
    /\ pc[s] = "add_album"
    /\ AlbumStore' = add_album(AlbumStore, frame[s].track)
    /\ Goto(s, "artists", frame[s])
    /\ UNCHANGED <<POPULATE_KEY, env, TrackStore, db, ArtistStore, nruns, hist>>

\* lines 142 and 146: the artists the two loops go through, track.artist and
\* then track.albumartist
Artists(s) ==
    /\ pc[s] = "artists"
    /\ Goto(s, "artist_exists",
            [frame[s] EXCEPT !.artists = frame[s].track.artist \o
                                         frame[s].track.albumartist])
    /\ UNCHANGED <<POPULATE_KEY, env, stores, nruns, hist>>

\* line 150: tagged_count += 1 ends the iteration
EndIteration(f) ==
    [f EXCEPT !.tagged_count = @ + 1, !.file = "", !.track = None, !.artists = <<>>,
              !.missed = FALSE]

\* The loops go on to their next artist; after the last one the iteration ends.
NextArtist(s) ==
    IF Len(frame[s].artists) > 1
    THEN Goto(s, "artist_exists", [frame[s] EXCEPT !.artists = Tail(@)])
    ELSE Goto(s, "tag_untagged", EndIteration(frame[s]))

\* lines 143 and 147: if not ArtistStore.artist_exists(artist.artisthash)
ArtistExists(s) ==
    /\ pc[s] = "artist_exists"
    /\ IF Len(frame[s].artists) = 0
       THEN Goto(s, "tag_untagged", EndIteration(frame[s]))
       ELSE IF artist_exists(ArtistStore, Head(frame[s].artists))
       THEN NextArtist(s)
       ELSE Goto(s, "add_artist", frame[s])
    /\ UNCHANGED <<POPULATE_KEY, env, stores, nruns, hist>>

\* lines 144 and 148: ArtistStore.add_artist(Artist(artist.name))
AddArtist(s) ==
    /\ pc[s] = "add_artist"
    /\ ArtistStore' = add_artist(ArtistStore, Head(frame[s].artists))
    /\ NextArtist(s)
    /\ UNCHANGED <<POPULATE_KEY, env, TrackStore, db, AlbumStore, nruns, hist>>

\* lines 154-158: the bulk insert that ends tag_untagged
InsertMany(s) ==
    /\ pc[s] = "insert_many_tracks"
    /\ db' = BulkInsert(db, frame[s].tagged_tracks)
    /\ Goto(s, "ProcessTrackThumbnails",
            Staged([frame[s] EXCEPT !.tagged_tracks = {}, !.tagged_count = 0,
                                    !.total = 0],
                   "tag_untagged"))
    /\ UNCHANGED <<POPULATE_KEY, env, TrackStore, AlbumStore, ArtistStore, nruns,
                   hist>>

\* lines 170-173: the pool is made and pool.map hands it every album of
\* AlbumStore.albums
PoolMap(s) ==
    /\ pc[s] = "ProcessTrackThumbnails"
    /\ Goto(s, "pool_join", [frame[s] EXCEPT !.albums = AlbumStore, !.next = 0])
    /\ UNCHANGED <<POPULATE_KEY, env, stores, nruns, hist>>

\* lines 161-164: a free worker takes the next album and get_image goes
\* through TrackStore.tracks; extract_thumb starts on the first match, and with
\* no match the worker is done with the album
WorkerStart(s) ==
    /\ frame[s].next < Len(frame[s].albums)
    /\ Cardinality({w.task : w \in frame[s].active}) < max_workers
    /\ LET i == frame[s].next + 1
           found == get_image(frame[s].albums[i], TrackStore)
       IN Goto(s, pc[s],
               [frame[s] EXCEPT
                  !.next = i,
                  !.active = @ \cup {[task |-> i, image |-> ImageOf(TrackStore[j])] :
                                        j \in found},
                  !.thumbs = @ \o SetToSeq({[task |-> i, track |-> TrackStore[j].filepath] :
                                              j \in found})])
    /\ UNCHANGED <<POPULATE_KEY, env, stores, nruns, hist>>

\* lines 164-165 with a failed extraction that raises out of the pool
WorkerEnd_Raising(s) ==
    /\ \E w \in frame[s].active, outcome \in ThumbOutcomes :
          IF outcome = "failed"
          THEN Goto(s, "raised", frame[s])
          ELSE Goto(s, pc[s], [frame[s] EXCEPT !.active = @ \ {w}])
    /\ UNCHANGED <<POPULATE_KEY, env, stores, nruns, hist>>

\* lines 164-165: extract_thumb returns, its result is not looked at, and the
\* worker is done with the album
WorkerEnd(s) ==
    /\ \E w \in frame[s].active, outcome \in ThumbOutcomes :
          Goto(s, pc[s],
               [frame[s] EXCEPT
                  !.active = @ \ {w},
                  !.failed = IF outcome = "failed" THEN @ \cup {w.task} ELSE @])
    /\ UNCHANGED <<POPULATE_KEY, env, stores, nruns, hist>>

\* lines 170-179 with a pool that is left while its workers are running
PoolJoin_NoWait(s) ==
    /\ pc[s] = "pool_join"
    /\ Goto(s, "ProcessAlbumColors", Staged(frame[s], "ProcessTrackThumbnails"))
    /\ UNCHANGED <<POPULATE_KEY, env, stores, nruns, hist>>

\* lines 171-179: list(...) takes every result and the with block waits for
\* the workers
PoolJoin(s) ==
    /\ pc[s] = "pool_join"
    /\ frame[s].next = Len(frame[s].albums)
    /\ frame[s].active = {}
    /\ Goto(s, "ProcessAlbumColors",
            Staged([frame[s] EXCEPT !.albums = <<>>, !.next = 0, !.failed = {}],
                   "ProcessTrackThumbnails"))
    /\ UNCHANGED <<POPULATE_KEY, env, stores, nruns, hist>>

\* lines 81-82 with the key test of line 127 repeated before each stage
PostStage_Cancellable(s) ==
    /\ pc[s] \in {"ProcessAlbumColors", "ProcessArtistColors"}
    /\ IF POPULATE_KEY # frame[s].key
       THEN Goto(s, "cancelled", frame[s])
       ELSE Goto(s, IF pc[s] = "ProcessAlbumColors" THEN "ProcessArtistColors"
                    ELSE "Ping",
                 Staged(frame[s], pc[s]))
    /\ UNCHANGED <<POPULATE_KEY, env, stores, nruns, hist>>

\* lines 81-82: the color stages
PostStage(s) ==
    /\ pc[s] \in {"ProcessAlbumColors", "ProcessArtistColors"}
    /\ Goto(s, IF pc[s] = "ProcessAlbumColors" THEN "ProcessArtistColors" ELSE "Ping",
            Staged(frame[s], pc[s]))
    /\ UNCHANGED <<POPULATE_KEY, env, stores, nruns, hist>>

\* lines 84-87 and 94-97: the connectivity probe
PingStep(s) ==
    /\ pc[s] = "Ping"
    /\ \E reachable \in BOOLEAN :
          Goto(s, IF reachable THEN "CheckArtistImages" ELSE "after_enrichment",
               Staged([frame[s] EXCEPT !.tried = reachable], "Ping"))
    /\ UNCHANGED <<POPULATE_KEY, env, stores, nruns, hist>>

\* line 89: CheckArtistImages() returns or raises
Enrich(s) ==
    /\ pc[s] = "CheckArtistImages"
    /\ \E outcome \in EnrichOutcomes :
          Goto(s, "enrichment_ended",
               Staged([frame[s] EXCEPT !.exc = outcome], "CheckArtistImages"))
    /\ UNCHANGED <<POPULATE_KEY, env, stores, nruns, hist>>

\* lines 88-93: the handler around CheckArtistImages()
Handler(s) ==
    /\ pc[s] = "enrichment_ended"
    /\ Goto(s, IF frame[s].exc = "ok" \/ Caught(frame[s].exc) THEN "after_enrichment"
               ELSE "raised",
            frame[s])
    /\ UNCHANGED <<POPULATE_KEY, env, stores, nruns, hist>>

\* lines 99-101 with the second artist color extraction made unconditional
AfterEnrichment_Always(s) ==
    /\ pc[s] = "after_enrichment"
    /\ Goto(s, "ProcessArtistColors_again", frame[s])
    /\ UNCHANGED <<POPULATE_KEY, env, stores, nruns, hist>>

\* lines 99-100: if tried_to_download_new_images
AfterEnrichment(s) ==
    /\ pc[s] = "after_enrichment"
    /\ Goto(s, IF frame[s].tried THEN "ProcessArtistColors_again" ELSE "done", frame[s])
    /\ UNCHANGED <<POPULATE_KEY, env, stores, nruns, hist>>

\* line 101: the second artist color extraction, and the return
ReprocessArtistColors(s) ==
    /\ pc[s] = "ProcessArtistColors_again"
    /\ Goto(s, "done", Staged(frame[s], "ProcessArtistColors"))
    /\ UNCHANGED <<POPULATE_KEY, env, stores, nruns, hist>>

\* The environment writes a file (a new mtime) or deletes it.
FsWrite(f) ==
    /\ fsEvents < MaxFsEvents
    /\ fsEvents' = fsEvents + 1
    /\ lastFsRun' = nruns
    /\ disk' = [disk EXCEPT ![f] = fsEvents + 3]
    /\ UNCHANGED <<POPULATE_KEY, stores, nruns, pc, frame, hist>>

FsDelete(f) ==
    /\ fsEvents < MaxFsEvents
    /\ Exists(f)
    /\ fsEvents' = fsEvents + 1
    /\ lastFsRun' = nruns
    /\ disk' = [disk EXCEPT ![f] = 0]
    /\ UNCHANGED <<POPULATE_KEY, stores, nruns, pc, frame, hist>>

\* The second session may start while the first is running; every later one
\* starts when no other is running.
Start(s, k) ==
    /\ s > 2 => \A r \in Runs : pc[r] \in Terminal \cup {"idle"}
    /\ Enter(s, k)

\* A session that starts when no other is running.
StartAlone(s, k) ==
    /\ \A r \in Runs : pc[r] \in Terminal \cup {"idle"}
    /\ Enter(s, k)

\* A session that starts while at most one other is running.
StartBeside(s, k) ==
    /\ Cardinality({r \in Runs : pc[r] \notin Terminal \cup {"idle"}}) <= 1
    /\ Enter(s, k)

\* Every second session is one that finds no root directory configured.
EverySecondFindsNoRoots(s) ==
    (s % 2 = 0 /\ pc[s] = "get_root_dirs") => frame'[s].dirs_to_scan = <<>>

Step(s) ==
    \/ ValidateTracks(s)
    \/ GetAllTracks(s)
    \/ GetRootDirs(s)
    \/ CheckDirs(s)
    \/ RemoveModified(s)
    \/ NextFile(s)
    \/ GetTags(s)
    \/ AlbumExists(s)
    \/ AddAlbum(s)
    \/ Artists(s)
    \/ ArtistExists(s)
    \/ AddArtist(s)
    \/ InsertMany(s)
    \/ PoolMap(s)
    \/ WorkerStart(s)
    \/ WorkerEnd(s)
    \/ PoolJoin(s)
    \/ PostStage(s)
    \/ PingStep(s)
    \/ Enrich(s)
    \/ Handler(s)
    \/ AfterEnrichment(s)
    \/ ReprocessArtistColors(s)

\* Sessions on concurrent threads, over a disk that does not change.
Next ==
    \/ \E s \in Runs, k \in Keys : Start(s, k)
    \/ \E s \in Runs : Step(s)

Spec == Init /\ [][Next]_vars

\* Sessions one after the other, over a disk that changes at any time.
NextFs ==
    \/ \E s \in Runs, k \in Keys : StartAlone(s, k)
    \/ \E s \in Runs : Step(s)
    \/ \E f \in Files : FsWrite(f)
    \/ \E f \in Files : FsDelete(f)

SpecFs == Init /\ [][NextFs]_vars

\* The files that come and go are on disk and none of them is ingested.
InitFresh ==
    /\ Init
    /\ Paths(db) = Settled
    /\ \A f \in Files : disk[f] = 1

\* Sessions that supersede one another: each starts while at most one other
\* is running, every second one with no root directory configured.
NextKeys ==
    \/ \E s \in Runs, k \in Keys : StartBeside(s, k)
    \/ \E s \in Runs : Step(s) /\ EverySecondFindsNoRoots(s)

SpecKeys == InitFresh /\ [][NextKeys]_vars

\* ------------------------------------------------------------- claims
\* The thread of run s is inside Populate.__init__.
Running(s) == pc[s] \notin Terminal \cup {"idle"}

\* The stages after tag ingestion.
PostTag ==
    {"ProcessTrackThumbnails", "pool_join", "ProcessAlbumColors",
     "ProcessArtistColors", "Ping", "CheckArtistImages", "enrichment_ended",
     "after_enrichment", "ProcessArtistColors_again"}

\* C1: a tag-ingestion loop that reaches its per-file check while the current
\* key differs from the key it captured raises the cancellation signal there,
\* with the in-memory Track store left as it is (the Tracks added so far stay);
\* a cancelled run takes no further step, so it calls the tag extractor on no
\* further file.
C1_CancelledAtCheck ==
    [][\A s \in Runs :
          /\ (/\ pc[s] = "tag_untagged"
              /\ frame[s].untagged # {}
              /\ POPULATE_KEY # frame[s].key
              /\ pc'[s] # pc[s])
             => (pc'[s] = "cancelled" /\ TrackStore' = TrackStore)
          /\ pc[s] = "cancelled" => pc'[s] = "cancelled"]_vars

\* A run was cancelled and a Track it added is in the in-memory store (and
\* not in the persistent table, the bulk insert having been skipped).
C1_Witness ==
    \E s \in Runs :
        /\ pc[s] = "cancelled"
        /\ \E i \in DOMAIN TrackStore : TrackStore[i] \notin db

\* C2: when no run is inside an iteration of the tag-ingestion loop, every
\* albumhash carried by a Track of the Track store belongs to exactly one
\* Album of the Album store.
C2_OneAlbumPerHash ==
    (\A s \in Runs : pc[s] \notin InIteration)
    => \A i \in DOMAIN TrackStore :
          Cardinality({j \in DOMAIN AlbumStore :
                          AlbumStore[j] = TrackStore[i].albumhash}) = 1

\* C3: a run that starts after the run before it has returned normally, with
\* the same root directories and the disk unchanged, adds no Track, no Album
\* and no Artist.
C3_SecondRunAddsNothing ==
    [][\A s \in Runs :
          (frame[s].rerun /\ ~overlapped /\ pc'[s] # pc[s])
          => /\ Len(TrackStore') <= Len(TrackStore)
             /\ Len(AlbumStore') <= Len(AlbumStore)
             /\ Len(ArtistStore') <= Len(ArtistStore)]_vars

\* C4: once a run is past tag ingestion, every scanned file it found modified
\* has a Track in the Track store whose last_mod is the file's mtime.
C4_StaleReingested ==
    \A s \in Runs :
        (pc[s] \in PostTag /\ ~overlapped)
        => \A f \in frame[s].stale :
              \E i \in DOMAIN TrackStore :
                  /\ TrackStore[i].filepath = f
                  /\ TrackStore[i].last_mod = disk[f]

\* C5: a run that is past validate_tracks, with no change to the disk since it
\* started, has not raised, and neither the in-memory store nor the persistent
\* table holds a Track of a file that is not on disk.
C5_DeletedFileRemoved ==
    \A s \in Runs :
        (pc[s] \notin {"idle", "validate_tracks"} /\ lastFsRun < s)
        => /\ pc[s] # "raised"
           /\ \A f \in Files :
                 disk[f] = 0 => f \notin Paths(Range(TrackStore)) \cup Paths(db)

\* A run returned normally with every file that comes and goes gone from the
\* disk: the album of the deleted files' Tracks is still there, the Tracks are
\* in neither store.
C5_Witness ==
    \E s \in Runs :
        /\ pc[s] = "done"
        /\ lastFsRun < s
        /\ \A f \in Files : disk[f] = 0
        /\ "A" \in Range(AlbumStore)
        /\ Paths(Range(TrackStore)) = Settled
        /\ Paths(db) = Settled

\* The places of a run from the enrichment stage to its return.
EnrichPcs ==
    {"CheckArtistImages", "enrichment_ended", "after_enrichment",
     "ProcessArtistColors_again"}

\* C6: from the start of the enrichment stage to the return of Populate no
\* step of the run changes the Track, Album or Artist store or the persistent
\* table, and once the download has failed with a connection error or a read
\* timeout the run neither raises nor is cancelled: it returns normally.
C6_EnrichmentIsolated ==
    [][\A s \in Runs :
          (pc[s] \in EnrichPcs /\ pc'[s] # pc[s])
          => /\ stores' = stores
             /\ frame[s].exc \in {"ConnectionError", "ReadTimeout"}
                => pc'[s] \in {"after_enrichment", "ProcessArtistColors_again", "done"}]_vars

\* The download failed and the handler has let the run go on.
C6_Witness ==
    \E s \in Runs :
        /\ pc[s] = "after_enrichment"
        /\ frame[s].exc \in {"ConnectionError", "ReadTimeout"}

C8_UniqueTrackhash ==
    \A i, j \in DOMAIN TrackStore :
        i # j => TrackStore[i].trackhash # TrackStore[j].trackhash

\* C9 as stated: whenever no run is in progress, the in-memory Track store and
\* the persistent table hold the same filepaths.
C9_Mirror ==
    (\A s \in Runs : ~Running(s))
    => Paths(Range(TrackStore)) = Paths(db)

\* C9 amended: the same, when no session has started while another was
\* running.
C9_MirrorWhenSequential ==
    ((\A s \in Runs : ~Running(s)) /\ ~overlapped)
    => Paths(Range(TrackStore)) = Paths(db)

\* No run is in progress, none overlapped another, and a run has ingested a
\* file written since the application started: its Track is in both stores.
C9_Witness ==
    /\ \A s \in Runs : ~Running(s)
    /\ ~overlapped
    /\ \E t \in db : t.last_mod = 2 /\ t \in Range(TrackStore)

\* C10: a run that has left the tag-ingestion stage is never cancelled.
C10_NoCancelAfterTagging ==
    [][\A s \in Runs : pc[s] \in PostTag => pc'[s] # "cancelled"]_vars

\* A run is past its stages up to the enrichment while the current key is no
\* longer its own.
C10_Witness ==
    \E s \in Runs :
        /\ pc[s] = "after_enrichment"
        /\ POPULATE_KEY # frame[s].key

\* C11: when no run is inside an iteration of the tag-ingestion loop, every
\* artist named in the artist list or the albumartist list of a Track of the
\* Track store belongs to exactly one Artist of the Artist store.
C11_OneArtistPerHash ==
    (\A s \in Runs : pc[s] \notin InIteration)
    => \A i \in DOMAIN TrackStore :
          \A h \in Range(TrackStore[i].artist) \cup Range(TrackStore[i].albumartist) :
              Cardinality({j \in DOMAIN ArtistStore : ArtistStore[j] = h}) = 1

\* The number of times a stage is in the list of the stages a run has executed.
Times(stages, name) == Cardinality({i \in DOMAIN stages : stages[i] = name})

\* C12: a run whose enrichment ended with a connection error or a read timeout
\* does not run the second artist color extraction.
C12_SkippedAfterFailure ==
    \A s \in Runs :
        pc[s] = "ProcessArtistColors_again"
        => frame[s].exc \notin {"ConnectionError", "ReadTimeout"}

\* C13: when the probe has reported unreachable the run goes past the
\* enrichment without invoking CheckArtistImages, and returns normally from
\* there with artist color extraction run exactly once.
C13_UnreachableSkipsEnrichment ==
    [][\A s \in Runs :
          /\ (pc[s] = "Ping" /\ pc'[s] # pc[s] /\ ~frame'[s].tried)
             => pc'[s] = "after_enrichment"
          /\ (pc[s] = "after_enrichment" /\ ~frame[s].tried /\ pc'[s] # pc[s])
             => /\ pc'[s] = "done"
                /\ Times(frame[s].stages, "CheckArtistImages") = 0
                /\ Times(frame[s].stages, "ProcessArtistColors") = 1]_vars

\* The probe has reported unreachable and the run is past the enrichment.
C13_Witness ==
    \E s \in Runs :
        /\ pc[s] = "after_enrichment"
        /\ ~frame[s].tried
        /\ Times(frame[s].stages, "Ping") = 1

\* The stages after the thumbnail stage.
AfterThumbnails == PostTag \ {"ProcessTrackThumbnails", "pool_join"}

\* C14: a run that has started its album color stage or a later stage has no
\* thumbnail worker still extracting and no album its workers have not taken.
C14_Barrier ==
    \A s \in Runs :
        pc[s] \in AfterThumbnails
        => (frame[s].active = {} /\ frame[s].next = Len(frame[s].albums))

\* A run is in its album color stage after a thumbnail stage in which the
\* workers extracted the artwork of two albums.
C14_Witness ==
    \E s \in Runs :
        /\ pc[s] = "ProcessAlbumColors"
        /\ Len(frame[s].thumbs) >= 2

\* C15: when a worker takes an album, artwork extraction is invoked on the
\* first Track of the Track store, in its order, whose albumhash is the
\* album's, and on no other; with no such Track it is not invoked. No album
\* has two extractions in one stage, and a stage has at most as many
\* extractions as albums.
C15_FirstMatchOnly ==
    /\ [](\A s \in Runs :
             /\ \A i, j \in DOMAIN frame[s].thumbs :
                   i # j => frame[s].thumbs[i].task # frame[s].thumbs[j].task
             /\ pc[s] = "pool_join" => Len(frame[s].thumbs) <= Len(frame[s].albums))
    /\ [][\A s \in Runs :
             IF frame'[s].next = frame[s].next + 1
             THEN LET i == frame[s].next + 1
                      m == Matching(frame[s].albums[i], TrackStore)
                  IN frame'[s].thumbs =
                        IF m = {} THEN frame[s].thumbs
                        ELSE Append(frame[s].thumbs,
                                    [task |-> i, track |-> TrackStore[Min(m)].filepath])
             ELSE frame'[s].thumbs \in {frame[s].thumbs, <<>>}]_vars

\* Every album of a thumbnail stage is taken and done with, and album A, of
\* which the Track store holds two Tracks, had one extraction.
C15_Witness ==
    \E s \in Runs :
        /\ pc[s] = "pool_join"
        /\ frame[s].next = Len(frame[s].albums)
        /\ frame[s].active = {}
        /\ Cardinality(Matching("A", TrackStore)) >= 2
        /\ \E i \in DOMAIN frame[s].thumbs :
              frame[s].albums[frame[s].thumbs[i].task] = "A"

\* C16: no two extractions in progress, of one pool or of the pools of two
\* sessions, write the same image path.
C16_NoConcurrentSamePath ==
    \A s, r \in Runs :
        \A w \in frame[s].active, v \in frame[r].active :
            (s # r \/ w # v) => w.image # v.image

C18_OneBulkInsert ==
    [][\A s \in Runs :
          /\ (pc[s] = "get_tags" /\ disk[frame[s].file] = 0 /\ pc'[s] # pc[s])
             => /\ pc'[s] = "tag_untagged"
                /\ stores' = stores
                /\ frame'[s].tagged_tracks = frame[s].tagged_tracks
                /\ frame'[s].tagged_count = frame[s].tagged_count
          /\ (pc[s] = "get_tags" /\ disk[frame[s].file] # 0 /\ pc'[s] # pc[s])
             => Paths(frame'[s].tagged_tracks) =
                   Paths(frame[s].tagged_tracks) \cup {frame[s].file}
          /\ (pc[s] \in InLoop /\ pc'[s] # pc[s]) => db' = db
          /\ (pc[s] = "insert_many_tracks" /\ pc'[s] # pc[s])
             => /\ frame[s].untagged = {}
                /\ db' = db \cup frame[s].tagged_tracks
                /\ Times(frame[s].stages, "tag_untagged") = 0
                /\ frame[s].tagged_count = Cardinality(frame[s].tagged_tracks)
                /\ frame[s].tagged_count <= frame[s].total
                /\ pc'[s] = "ProcessTrackThumbnails"]_vars

\* The loop has ended with a file read and a file the tag extractor returned
\* nothing for: the bulk insert is due with a batch smaller than the number of
\* files attempted.
C18_Witness ==
    \E s \in Runs :
        /\ pc[s] = "insert_many_tracks"
        /\ frame[s].tagged_count > 0
        /\ frame[s].tagged_count < frame[s].total

\* C19: a run is cancelled only by a per-file test that finds the current key
\* different from the key it captured; a test that finds the two equal lets
\* the loop go on to the file, whichever sessions have started since the test
\* before it, and the start of a session with the run's own key leaves the
\* run where it is.
C19_CancelledOnlyAtCheck ==
    [][\A s \in Runs :
          /\ (pc'[s] = "cancelled" /\ pc[s] # "cancelled")
             => /\ pc[s] = "tag_untagged"
                /\ frame[s].untagged # {}
                /\ POPULATE_KEY # frame[s].key
          /\ (/\ pc[s] = "tag_untagged"
              /\ frame[s].untagged # {}
              /\ POPULATE_KEY = frame[s].key
              /\ pc'[s] # pc[s])
             => pc'[s] = "get_tags"
          /\ (nruns' # nruns /\ pc[s] \in InLoop /\ POPULATE_KEY' = frame[s].key)
             => (pc'[s] = pc[s] /\ frame'[s] = frame[s])]_vars

\* The first run has passed a key test although the second session, with
\* another key, and the third, with the first run's key, both started since its
\* test before; the third session is ingesting at the same time.
C19_Witness ==
    /\ pc[1] = "get_tags"
    /\ frame[1].missed
    /\ pc[3] \in InIteration
    /\ frame[3].key = frame[1].key

\* C20: a session that starts has its key current at once, so up to its
\* root-directory check the latest session's key is the current key; and when
\* the latest session has returned for want of a root directory, a loop that
\* captured another key is cancelled at its next per-file test.
C20_KeySetBeforeRootCheck ==
    /\ [](\A s \in Runs :
             (s = nruns /\ pc[s] \in {"validate_tracks", "get_all_tracks",
                                       "get_root_dirs", "check_dirs"})
             => POPULATE_KEY = frame[s].key)
    /\ [][\A s \in Runs :
             (/\ pc[s] = "tag_untagged"
              /\ frame[s].untagged # {}
              /\ earlyExit \notin {"", frame[s].key}
              /\ pc'[s] # pc[s])
             => pc'[s] = "cancelled"]_vars

\* The latest session has returned for want of a root directory, and an
\* earlier run has been cancelled while files were left for it to read.
C20_Witness ==
    /\ earlyExit = "k2"
    /\ nruns = 2
    /\ pc[2] = "done"
    /\ pc[1] = "cancelled"

====
